---- MODULE Spec2Model ----
(***************************************************************************)
(* A model of src/substack_bot.py: SubstackBot.extract_ohlc_data,          *)
(* format_market_analysis, post_to_substack_chat, run_analysis and main.   *)
(*                                                                         *)
(* The web automation driver and the target pages are the environment:     *)
(* every awaited driver call either raises or returns, and what a selector *)
(* query returns is drawn from bounded sets of element texts.              *)
(*                                                                         *)
(* Python values.  None is the empty tuple <<>> and a float v is the       *)
(* one-element tuple <<n>>, n the value in units of 1/Scale.  A text is a  *)
(* tuple of one-character strings.                                         *)
(***************************************************************************)
EXTENDS Integers, Sequences, FiniteSets, TLC

\* ---------------------------------------------------------------- bounds

\* Longest list of elements one selector query returns, in one extraction
\* taken alone and in a whole run.
MaxElems == 2

MaxRunElems == 1

\* Longest generated text fed to the numeric-extraction step.
MaxLen == 5

\* ------------------------------------------------------- python values

\* Fixed-point units per 1.0 of a Python float (three decimals).
Scale == 1000

None == <<>>

Some(n) == <<n>>

\* Python truthiness of None-or-float: None and 0.0 are falsy.
Truthy(x) == x # None /\ x[1] # 0

\* Python `a or b` on None-or-float operands.
PyOr(a, b) == IF Truthy(a) THEN a ELSE b

\* ------------------------------------------------- numeric extraction

Digits == <<"0", "1", "2", "3", "4", "5", "6", "7", "8", "9">>

IsDigit(c) == \E i \in 1..10 : Digits[i] = c

DigitVal(c) == (CHOOSE i \in 1..10 : Digits[i] = c) - 1

\* Last index of the maximal run of digits of text starting at i (i - 1 when
\* text[i] is no digit): the greedy [0-9]* .
RECURSIVE DigitRunEnd(_, _)
DigitRunEnd(text, i) ==
    IF i <= Len(text) /\ IsDigit(text[i]) THEN DigitRunEnd(text, i + 1) ELSE i - 1

\* re.search(r'([0-9]+[.,]?[0-9]*)', text).group(1), or None: the leftmost
\* digit starts the match; then the digits, at most one '.' or ',', and the
\* digits after it.
NumericMatch(text) ==
    IF \A i \in 1..Len(text) : ~IsDigit(text[i]) THEN None
    ELSE LET s  == CHOOSE i \in 1..Len(text) :
                      IsDigit(text[i]) /\ \A j \in 1..(i - 1) : ~IsDigit(text[j])
             e1 == DigitRunEnd(text, s)
             e2 == IF e1 + 1 <= Len(text) /\ text[e1 + 1] \in {".", ","}
                   THEN e1 + 1 ELSE e1
             e3 == IF e2 > e1 THEN DigitRunEnd(text, e2 + 1) ELSE e1
         IN SubSeq(text, s, e3)

\* str.replace(',', '')
IsNotComma(c) == c # ","

RemoveCommas(s) == SelectSeq(s, IsNotComma)

\* The integer a tuple of digits denotes.
RECURSIVE DigitsValue(_)
DigitsValue(ds) ==
    IF ds = <<>> THEN 0
    ELSE 10 * DigitsValue(SubSeq(ds, 1, Len(ds) - 1)) + DigitVal(ds[Len(ds)])

\* 10^k
RECURSIVE Pow10(_)
Pow10(k) == IF k = 0 THEN 1 ELSE 10 * Pow10(k - 1)

\* Decimal places of Scale.
ScaleDigits == CHOOSE k \in 0..9 : Pow10(k) = Scale

\* The outcome "float() raised ValueError": a pair, unlike None and any float.
ValueError == <<-1, -1>>

\* float(s) for s over digits and '.': digits with at most one '.', at least
\* one digit in all; anything else raises ValueError.  Decimals past
\* ScaleDigits are dropped.
FloatOf(s) ==
    LET dots == {i \in 1..Len(s) : s[i] = "."}
        wellFormed == /\ \A i \in 1..Len(s) : IsDigit(s[i]) \/ s[i] = "."
                      /\ Cardinality(dots) <= 1
                      /\ \E i \in 1..Len(s) : IsDigit(s[i])
    IN IF ~wellFormed THEN ValueError
       ELSE LET d     == IF dots = {} THEN Len(s) + 1 ELSE CHOOSE i \in dots : TRUE
                ip    == SubSeq(s, 1, d - 1)
                fpAll == SubSeq(s, d + 1, Len(s))
                fp    == SubSeq(fpAll, 1, IF Len(fpAll) > ScaleDigits
                                          THEN ScaleDigits ELSE Len(fpAll))
            IN Some(DigitsValue(ip) * Scale
                    + DigitsValue(fp) * Pow10(ScaleDigits - Len(fp)))

\* Lines 88-96 (and 116-124) on one element text: None when the regex does
\* not match, ValueError when float() raises, else the float.
ParseNumber(text) ==
    LET m == NumericMatch(text)
    IN IF m = None THEN None ELSE FloatOf(RemoveCommas(m))

\* -------------------------------------------------------------- state

VARIABLES
    cookie,     \* os.getenv('SUBSTACK_COOKIE'): None or a string
    mpc,        \* where main / run_analysis stands
    tpc,        \* per symbol: where that extract_ohlc_data call stands
    fi,         \* per symbol: index of the field the primary loop is at
    si,         \* per symbol: index of the selector the primary loop is at
    ohlc,       \* per symbol: the call's ohlc_data dict
    browser,    \* per symbol: "none", "open", or "closed" (browser.close() ran)
    ret,        \* per symbol: "pending", "dict", "none", "raised", "cancelled"
    message,    \* the text run_analysis formatted, None before
    ppc,        \* where post_to_substack_chat stands
    isel,       \* index of the input selector being waited for
    message_input, \* the local of line 190: None or the element found
    perr,       \* the exception post_to_substack_chat is raising, None if none
    ssel,       \* index of the send selector being queried
    pbrowser,   \* the publisher's browser: "none", "open", "closed"
    acts,       \* what the publisher did on the page, in order
    matched,    \* some send selector's query returned an element
    sent,       \* the local `sent` of post_to_substack_chat
    posted,     \* run_analysis logged "OHLC analysis complete and posted!"
    ptext,      \* input of the numeric-extraction step taken alone
    pres,       \* its result
    fin,        \* inputs of format_market_analysis taken alone
    fout        \* its result

taskVars == <<tpc, fi, si, ohlc, browser, ret>>

postVars == <<ppc, isel, message_input, perr, ssel, pbrowser, acts, matched, sent>>

runVars == <<cookie, mpc, message, posted>>

pureVars == <<ptext, pres, fin, fout>>

vars == <<cookie, mpc, tpc, fi, si, ohlc, browser, ret, message, ppc, isel, message_input,
          perr, ssel, pbrowser, acts, matched, sent, posted, ptext, pres, fin, fout>>

\* --------------------------------------------------- extract_ohlc_data

\* The symbols run_analysis extracts, and one the estimation step has no
\* range constant for.
RunSymbols == {"ES1!", "NQ1!"}

Symbols == RunSymbols \cup {"CL1!"}

\* selectors.items() in dict order (lines 52-78).
Fields == <<"open", "high", "low", "close">>

Selectors ==
    [open  |-> << "[data-name=\"legend-source-item\"] [data-name=\"open\"]",
                  ".legend-item .legend-source-item .legend-source-title:contains(\"O\")",
                  ".js-symbol-legend-open",
                  ".legend .legend-source-open" >>,
     high  |-> << "[data-name=\"legend-source-item\"] [data-name=\"high\"]",
                  ".legend-item .legend-source-item .legend-source-title:contains(\"H\")",
                  ".js-symbol-legend-high",
                  ".legend .legend-source-high" >>,
     low   |-> << "[data-name=\"legend-source-item\"] [data-name=\"low\"]",
                  ".legend-item .legend-source-item .legend-source-title:contains(\"L\")",
                  ".js-symbol-legend-low",
                  ".legend .legend-source-low" >>,
     close |-> << "[data-name=\"legend-source-item\"] [data-name=\"close\"]",
                  ".js-symbol-last",
                  ".legend-item .legend-source-item .legend-source-title:contains(\"C\")",
                  ".js-symbol-legend-close",
                  ".legend .legend-source-close" >>]

\* The dict of lines 42-49.  The timestamp is the clock's reading, one token.
NewOhlc(symbol) ==
    [symbol |-> symbol, open |-> None, high |-> None, low |-> None,
     close |-> None, timestamp |-> "now"]

\* Element texts the pages show.
T_USD == <<"4", ",", "5", "2", "1", ".", "2", "5", " ", "U", "S", "D">>

T_ZERO == <<"0", ".", "0", "0">>

T_NINE == <<"9">>

T_NA == <<"n", "/", "a">>

\* Texts of a page in a whole run, and in one extraction taken alone.
RunTexts == {T_USD, T_ZERO, T_NA}

ExtractTexts == RunTexts \cup {T_NINE}

\* Lines 88-96 on each text a page shows (the same text parses the same).
ParsedText == [text \in ExtractTexts |-> ParseNumber(text)]

\* What one selector query can do: raise (the query itself, or reading the
\* text of an element before any value was stored), or return the texts of
\* the elements it matched, in document order.
QueryOutcomes(texts, n) ==
    {[raises |-> TRUE, elems |-> <<>>]}
    \cup {[raises |-> FALSE, elems |-> e] :
              e \in UNION {[1..k -> texts] : k \in 0..n}}

\* The selectors written with :contains(), which jQuery has and CSS has not:
\* a driver that takes CSS only raises on them.
JQuerySelectors ==
    {Selectors.open[2], Selectors.high[2], Selectors.low[2],
     Selectors.close[3]}

\* What the query of one selector can do when the driver raises on every
\* selector in `rejected`.
SelectorOutcomes(selector, texts, n, rejected) ==
    IF selector \in rejected
    THEN {[raises |-> TRUE, elems |-> <<>>]}
    ELSE QueryOutcomes(texts, n)

\* Lines 85-96: the value the element loop stores, None when it stores
\* nothing: the first element whose text matches and converts.
RECURSIVE FirstParsed(_)
FirstParsed(elems) ==
    IF elems = <<>> THEN None
    ELSE LET v == ParsedText[Head(elems)]
         IN IF v = None \/ v = ValueError THEN FirstParsed(Tail(elems)) ELSE v

\* Line 97: `if ohlc_data[field]: break` leaves the selector loop.
StopsField(value) == Truthy(value)

\* Line 104: not any([open, high, low, close]).
NoneFound(d) ==
    ~(Truthy(d.open) \/ Truthy(d.high) \/ Truthy(d.low) \/ Truthy(d.close))

\* Lines 135-140, in units of 1/Scale.
ES_RANGE == 15

NQ_RANGE == 75

RangeEst(symbol, close_price) ==
    IF symbol = "ES1!" THEN ES_RANGE * Scale
    ELSE IF symbol = "NQ1!" THEN NQ_RANGE * Scale
    ELSE close_price \div 100

\* NeedsEstimate with line 130 reading `not any(...)`: estimation is left out
\* as soon as one of open, high, low was scraped.
NeedsEstimateNotAny(d) ==
    Truthy(d.close) /\ ~(Truthy(d.open) \/ Truthy(d.high) \/ Truthy(d.low))

\* Line 130: close and not all([open, high, low]).
NeedsEstimate(d) ==
    Truthy(d.close) /\ ~(Truthy(d.open) /\ Truthy(d.high) /\ Truthy(d.low))

\* Lines 129-146: the dict the call returns.
Estimated(d) ==
    IF ~NeedsEstimate(d) THEN d
    ELSE LET c == d.close[1]
             r == RangeEst(d.symbol, c)
         IN [d EXCEPT !.high = PyOr(d.high, Some(c + (r * 6) \div 10)),
                      !.low  = PyOr(d.low,  Some(c - (r * 6) \div 10)),
                      !.open = PyOr(d.open, Some(c + (r * 2) \div 10))]

\* The pc after the primary loop (line 104).
AfterProbe(d) == IF NoneFound(d) THEN "alt" ELSE "estimate"

\* Line 30: p.chromium.launch().  Outside the try: a failure leaves the call.
Launch(t) ==
    /\ tpc[t] = "created"
    /\ \/ /\ tpc' = [tpc EXCEPT ![t] = "launched"]
          /\ browser' = [browser EXCEPT ![t] = "open"]
          /\ UNCHANGED ret
       \/ /\ tpc' = [tpc EXCEPT ![t] = "done"]
          /\ ret' = [ret EXCEPT ![t] = "raised"]
          /\ UNCHANGED browser
    /\ UNCHANGED <<fi, si, ohlc, runVars, postVars, pureVars>>

\* Line 31: browser.new_page().  Outside the try: a failure leaves the call
\* with no handler and no finally; only the driver's scope ends.
NewPage(t) ==
    /\ tpc[t] = "launched"
    /\ \/ /\ tpc' = [tpc EXCEPT ![t] = "opened"]
          /\ UNCHANGED ret
       \/ /\ tpc' = [tpc EXCEPT ![t] = "done"]
          /\ ret' = [ret EXCEPT ![t] = "raised"]
    /\ UNCHANGED <<fi, si, ohlc, browser, runVars, postVars, pureVars>>

\* Line 36: page.goto().  In the try: a failure goes to `return None`,
\* then the finally.
Goto(t) ==
    /\ tpc[t] = "opened"
    /\ \/ tpc' = [tpc EXCEPT ![t] = "loaded"]
       \/ tpc' = [tpc EXCEPT ![t] = "finally_none"]
    /\ UNCHANGED <<fi, si, ohlc, browser, ret, runVars, postVars, pureVars>>

\* Lines 39-49: the settle wait, then the fresh dict.
Settle(t) ==
    /\ tpc[t] = "loaded"
    /\ \/ /\ tpc' = [tpc EXCEPT ![t] = "probe"]
          /\ ohlc' = [ohlc EXCEPT ![t] = NewOhlc(t)]
          /\ fi' = [fi EXCEPT ![t] = 1]
          /\ si' = [si EXCEPT ![t] = 1]
       \/ /\ tpc' = [tpc EXCEPT ![t] = "finally_none"]
          /\ UNCHANGED <<fi, si, ohlc>>
    /\ UNCHANGED <<browser, ret, runVars, postVars, pureVars>>

\* The dict after one pass of the selector loop body (lines 83-101) for the
\* field at index f, given what the query did.
Probed(d, f, out) ==
    IF out.raises THEN d
    ELSE LET v == FirstParsed(out.elems)
         IN IF v = None THEN d ELSE [d EXCEPT ![Fields[f]] = v]

\* ProbeSelector with the try of line 83 missing: a probe that raises leaves
\* both loops and reaches the handler of line 148, and the call gives None.
ProbeSelectorAborts(t, texts, n, rejected) ==
    /\ tpc[t] = "probe"
    /\ \E out \in SelectorOutcomes(Selectors[Fields[fi[t]]][si[t]], texts, n,
                                   rejected) :
          LET f     == fi[t]
              d     == Probed(ohlc[t], f, out)
              stop  == StopsField(d[Fields[f]])
              last  == si[t] = Len(Selectors[Fields[f]])
          IN /\ ohlc' = [ohlc EXCEPT ![t] = d]
             /\ IF out.raises
                THEN /\ tpc' = [tpc EXCEPT ![t] = "finally_none"]
                     /\ fi' = [fi EXCEPT ![t] = 0]
                     /\ si' = [si EXCEPT ![t] = 0]
                ELSE IF ~stop /\ ~last
                THEN /\ si' = [si EXCEPT ![t] = si[t] + 1]
                     /\ UNCHANGED <<fi, tpc>>
                ELSE IF f < Len(Fields)
                THEN /\ fi' = [fi EXCEPT ![t] = f + 1]
                     /\ si' = [si EXCEPT ![t] = 1]
                     /\ UNCHANGED tpc
                ELSE /\ tpc' = [tpc EXCEPT ![t] = AfterProbe(d)]
                     /\ fi' = [fi EXCEPT ![t] = 0]
                     /\ si' = [si EXCEPT ![t] = 0]
    /\ UNCHANGED <<browser, ret, runVars, postVars, pureVars>>

\* Lines 81-101, one selector of one field: the query, the element loop, and
\* the move to the next selector or the next field.
ProbeSelector(t, texts, n, rejected) ==
    /\ tpc[t] = "probe"
    /\ \E out \in SelectorOutcomes(Selectors[Fields[fi[t]]][si[t]], texts, n,
                                   rejected) :
          LET f     == fi[t]
              d     == Probed(ohlc[t], f, out)
              stop  == ~out.raises /\ StopsField(d[Fields[f]])
              last  == si[t] = Len(Selectors[Fields[f]])
          IN /\ ohlc' = [ohlc EXCEPT ![t] = d]
             /\ IF ~stop /\ ~last
                THEN /\ si' = [si EXCEPT ![t] = si[t] + 1]
                     /\ UNCHANGED <<fi, tpc>>
                ELSE IF f < Len(Fields)
                THEN /\ fi' = [fi EXCEPT ![t] = f + 1]
                     /\ si' = [si EXCEPT ![t] = 1]
                     /\ UNCHANGED tpc
                ELSE /\ tpc' = [tpc EXCEPT ![t] = AfterProbe(d)]
                     /\ fi' = [fi EXCEPT ![t] = 0]
                     /\ si' = [si EXCEPT ![t] = 0]
    /\ UNCHANGED <<browser, ret, runVars, postVars, pureVars>>

\* Lines 114-124: the fallback's element loop, which stores close only.
RECURSIVE AltClose(_, _)
AltClose(close, elems) ==
    IF elems = <<>> THEN close
    ELSE LET v == ParsedText[Head(elems)]
         IN IF v # None /\ ~Truthy(close)
            THEN IF v = ValueError THEN AltClose(close, Tail(elems)) ELSE v
            ELSE AltClose(close, Tail(elems))

\* Lines 104-127: the "any visible price" fallback.  wait_for_selector or
\* the query may raise; the handler of line 126 logs and goes on.
Alternative(t, texts, n) ==
    /\ tpc[t] = "alt"
    /\ \E out \in QueryOutcomes(texts, n) :
          ohlc' = [ohlc EXCEPT ![t].close =
                      IF out.raises THEN @ ELSE AltClose(@, out.elems)]
    /\ tpc' = [tpc EXCEPT ![t] = "estimate"]
    /\ UNCHANGED <<fi, si, browser, ret, runVars, postVars, pureVars>>

\* Lines 129-146: estimate what is missing and return the dict.
Estimate(t) ==
    /\ tpc[t] = "estimate"
    /\ ohlc' = [ohlc EXCEPT ![t] = Estimated(@)]
    /\ tpc' = [tpc EXCEPT ![t] = "finally_dict"]
    /\ UNCHANGED <<fi, si, browser, ret, runVars, postVars, pureVars>>

\* Lines 151-152: the finally closes the browser, then the call returns what
\* the try or the handler returned.
CloseBrowser(t) ==
    /\ tpc[t] \in {"finally_dict", "finally_none"}
    /\ browser' = [browser EXCEPT ![t] = "closed"]
    /\ ret' = [ret EXCEPT ![t] = IF tpc[t] = "finally_dict" THEN "dict" ELSE "none"]
    /\ tpc' = [tpc EXCEPT ![t] = "done"]
    /\ UNCHANGED <<fi, si, ohlc, runVars, postVars, pureVars>>

\* One step of one extraction.
ExtractStep(t, texts, n, rejected) ==
    \/ Launch(t)
    \/ NewPage(t)
    \/ Goto(t)
    \/ Settle(t)
    \/ ProbeSelector(t, texts, n, rejected)
    \/ Alternative(t, texts, n)
    \/ Estimate(t)
    \/ CloseBrowser(t)

\* What the call returned to its caller: the dict (in a one-element tuple),
\* or None.
Returned(t) == IF ret[t] = "dict" THEN <<ohlc[t]>> ELSE None

\* ------------------------------------------- one extraction taken alone

\* A pure function's result slot: whether it was called, and what it gave.
NotCalled == [done |-> FALSE, value |-> None]

Gave(v) == [done |-> TRUE, value |-> v]

IdleTasks ==
    /\ tpc = [t \in Symbols |-> "idle"]
    /\ fi = [t \in Symbols |-> 0]
    /\ si = [t \in Symbols |-> 0]
    /\ ohlc = [t \in Symbols |-> NewOhlc(t)]
    /\ browser = [t \in Symbols |-> "none"]
    /\ ret = [t \in Symbols |-> "pending"]

IdlePost ==
    /\ ppc = "idle"
    /\ isel = 0
    /\ message_input = None
    /\ perr = None
    /\ ssel = 0
    /\ pbrowser = "none"
    /\ acts = <<>>
    /\ matched = FALSE
    /\ sent = FALSE

IdlePure ==
    /\ ptext = <<>>
    /\ pres = NotCalled
    /\ fin = <<None, None>>
    /\ fout = NotCalled

\* A caller awaits extract_ohlc_data(symbol) for one symbol.
InitExtract ==
    /\ cookie = <<"sid">>
    /\ mpc = "direct"
    /\ message = None
    /\ posted = FALSE
    /\ \E s \in Symbols :
          /\ tpc = [t \in Symbols |-> IF t = s THEN "created" ELSE "idle"]
          /\ fi = [t \in Symbols |-> 0]
          /\ si = [t \in Symbols |-> 0]
          /\ ohlc = [t \in Symbols |-> NewOhlc(t)]
          /\ browser = [t \in Symbols |-> "none"]
          /\ ret = [t \in Symbols |-> "pending"]
    /\ IdlePost
    /\ IdlePure

NextExtract == \E t \in Symbols : ExtractStep(t, ExtractTexts, MaxElems, {})

SpecExtract == InitExtract /\ [][NextExtract]_vars

\* The same call on a driver that raises on the :contains() selectors: each
\* field's loop meets a probe that raises unless an earlier strategy ended it.
NextRejecting ==
    \E t \in Symbols : ExtractStep(t, ExtractTexts, MaxElems, JQuerySelectors)

SpecRejecting == InitExtract /\ [][NextRejecting]_vars

\* ---------------------------------------------- format_market_analysis

\* '{:.2f}'.format(v): v to the nearest hundredth, as a count of hundredths.
Round2(n) ==
    LET unit == Scale \div 100
        a    == IF n < 0 THEN -n ELSE n
        q    == a \div unit
        r    == a % unit
        up   == 2 * r > unit \/ (2 * r = unit /\ q % 2 = 1)
        h    == IF up THEN q + 1 ELSE q
    IN IF n < 0 THEN -h ELSE h

\* A line of the message: its fixed text and, where it shows a price, the
\* price as formatted.
TextLine(s) == [text |-> s, price |-> None]

\* What f"{None:.2f}" does: it raises TypeError.
TypeError == <<-2, -2>>

\* A line that formats v with :.2f; a line whose price is TypeError stands
\* for the call raising at that line.
PriceLine(s, v) ==
    [text |-> s, price |-> IF v = None THEN TypeError ELSE Some(Round2(v[1]))]

\* Line 245.  The clock's reading in the header is left out.
HeaderLines == <<TextLine("Market Update"), TextLine("")>>

\* Lines 269-271.
TrailerLines ==
    <<TextLine("Key levels extracted from TradingView OHLC data"),
      TextLine("Support = Low | Resistance = High | Current = Close"),
      TextLine("#Trading #Futures #ES #NQ #TradingView")>>

\* Lines 250-251, 252-253, 254-255: `if data[field]:` add the line.
OptLine(s, v) == IF Truthy(v) THEN <<PriceLine(s, v)>> ELSE <<>>

\* HasBlock with lines 247 and 258 testing the snapshot alone, not its close.
HasBlockAnySnapshot(data) == data # None

\* Lines 247 and 258: `data and data['close']`.
HasBlock(data) == data # None /\ Truthy(data[1].close)

\* Lines 247-256 and 258-267: one instrument's block; data is None or <<dict>>.
Block(title, data) ==
    IF ~HasBlock(data) THEN <<>>
    ELSE <<TextLine(title), PriceLine("Current/Last", data[1].close)>>
         \o OptLine("Resistance", data[1].high)
         \o OptLine("Support", data[1].low)
         \o OptLine("Open", data[1].open)
         \o <<TextLine("")>>

ES_TITLE == "ES (S&P 500 Futures)"

NQ_TITLE == "NQ (Nasdaq Futures)"

\* Lines 238-273: the message, a tuple of lines.
FormatMarketAnalysis(es_data, nq_data) ==
    HeaderLines \o Block(ES_TITLE, es_data) \o Block(NQ_TITLE, nq_data)
    \o TrailerLines

\* ----------------------------------------------- post_to_substack_chat

\* Lines 181-188 and 207-212.
InputSelectors ==
    << "[data-testid=\"chat-input\"]", ".chat-input",
       "textarea[placeholder*=\"message\"]", "div[contenteditable=\"true\"]",
       ".ProseMirror", "textarea" >>

SendSelectors ==
    << "[data-testid=\"send-button\"]", "button[type=\"submit\"]",
       ".send-button", "button[aria-label*=\"Send\"]" >>

\* The exceptions the call raises: one the driver raised, and the one of
\* line 200.
DriverError == <<"driver error">>

NoInputError == <<"Could not find chat input field">>

\* A driver call before the try (lines 159-170) that raises leaves the call
\* at once: there is no handler and no finally around it.
PostLaunch ==
    /\ ppc = "start"
    /\ \/ /\ ppc' = "launched"
          /\ pbrowser' = "open"
          /\ UNCHANGED perr
       \/ /\ ppc' = "raised"
          /\ perr' = DriverError
          /\ UNCHANGED pbrowser
    /\ UNCHANGED <<isel, message_input, ssel, acts, matched, sent, taskVars,
                   runVars, pureVars>>

\* Line 160: browser.new_context().
PostNewContext ==
    /\ ppc = "launched"
    /\ \/ /\ ppc' = "context"
          /\ UNCHANGED perr
       \/ /\ ppc' = "raised"
          /\ perr' = DriverError
    /\ UNCHANGED <<isel, message_input, ssel, pbrowser, acts, matched, sent,
                   taskVars, runVars, pureVars>>

\* Lines 163-168: context.add_cookies().
PostAddCookies ==
    /\ ppc = "context"
    /\ \/ /\ ppc' = "cookie"
          /\ UNCHANGED perr
       \/ /\ ppc' = "raised"
          /\ perr' = DriverError
    /\ UNCHANGED <<isel, message_input, ssel, pbrowser, acts, matched, sent,
                   taskVars, runVars, pureVars>>

\* Line 170: context.new_page().
PostNewPage ==
    /\ ppc = "cookie"
    /\ \/ /\ ppc' = "page"
          /\ UNCHANGED perr
       \/ /\ ppc' = "raised"
          /\ perr' = DriverError
    /\ UNCHANGED <<isel, message_input, ssel, pbrowser, acts, matched, sent,
                   taskVars, runVars, pureVars>>

\* Line 175: page.goto().  From here a failure is logged and re-raised
\* (lines 232-234) after the finally.
PostGoto ==
    /\ ppc = "page"
    /\ \/ /\ ppc' = "loaded"
          /\ UNCHANGED perr
       \/ /\ ppc' = "finally_raise"
          /\ perr' = DriverError
    /\ UNCHANGED <<isel, message_input, ssel, pbrowser, acts, matched, sent,
                   taskVars, runVars, pureVars>>

\* Line 178: the settle wait; line 190: message_input = None.
PostSettle ==
    /\ ppc = "loaded"
    /\ \/ /\ ppc' = "input"
          /\ isel' = 1
          /\ message_input' = None
          /\ UNCHANGED perr
       \/ /\ ppc' = "finally_raise"
          /\ perr' = DriverError
          /\ UNCHANGED <<isel, message_input>>
    /\ UNCHANGED <<ssel, pbrowser, acts, matched, sent, taskVars, runVars,
                   pureVars>>

\* WaitInput with line 200 a `return` in place of the `raise`: with no input
\* control the call ends as if it had posted.
WaitInputReturns ==
    /\ ppc = "input"
    /\ \/ /\ message_input' = <<"element">>
          /\ ppc' = "click"
          /\ isel' = 0
          /\ UNCHANGED perr
       \/ /\ isel < Len(InputSelectors)
          /\ isel' = isel + 1
          /\ UNCHANGED <<ppc, message_input, perr>>
       \/ /\ isel = Len(InputSelectors)
          /\ ppc' = "finally_return"
          /\ isel' = 0
          /\ UNCHANGED <<message_input, perr>>
    /\ UNCHANGED <<ssel, pbrowser, acts, matched, sent, taskVars, runVars,
                   pureVars>>

\* Lines 191-200, one input selector: wait_for_selector returns the element,
\* or times out and the bare except goes to the next selector; with none
\* left, line 200 raises.  The index is 0 outside the loop.
WaitInput ==
    /\ ppc = "input"
    /\ \/ /\ message_input' = <<"element">>
          /\ ppc' = "click"
          /\ isel' = 0
          /\ UNCHANGED perr
       \/ /\ isel < Len(InputSelectors)
          /\ isel' = isel + 1
          /\ UNCHANGED <<ppc, message_input, perr>>
       \/ /\ isel = Len(InputSelectors)
          /\ ppc' = "finally_raise"
          /\ perr' = NoInputError
          /\ isel' = 0
          /\ UNCHANGED message_input
    /\ UNCHANGED <<ssel, pbrowser, acts, matched, sent, taskVars, runVars,
                   pureVars>>

\* Line 203: message_input.click().
ClickInput ==
    /\ ppc = "click"
    /\ \/ /\ ppc' = "fill"
          /\ acts' = Append(acts, "click")
          /\ UNCHANGED perr
       \/ /\ ppc' = "finally_raise"
          /\ perr' = DriverError
          /\ UNCHANGED acts
    /\ UNCHANGED <<isel, message_input, ssel, pbrowser, matched, sent, taskVars,
                   runVars, pureVars>>

\* Line 204: message_input.fill(message); line 214: sent = False.
FillInput ==
    /\ ppc = "fill"
    /\ \/ /\ ppc' = "send"
          /\ acts' = Append(acts, "fill")
          /\ ssel' = 1
          /\ sent' = FALSE
          /\ UNCHANGED perr
       \/ /\ ppc' = "finally_raise"
          /\ perr' = DriverError
          /\ UNCHANGED <<acts, ssel, sent>>
    /\ UNCHANGED <<isel, message_input, pbrowser, matched, taskVars, runVars,
                   pureVars>>

\* Where the send loop goes after a selector that did not send (line 225),
\* and the index it goes there with (0 outside the loop).
NextSend == IF ssel < Len(SendSelectors) THEN "send" ELSE "enter"

NextSsel == IF ssel < Len(SendSelectors) THEN ssel + 1 ELSE 0

\* QuerySend with lines 219-220 (`sent = True`, `break`) left out: a clicked
\* button does not end the loop and the call goes on to the Enter fallback.
QuerySendNoBreak ==
    /\ ppc = "send"
    /\ \/ /\ acts' = Append(acts, "send_click")
          /\ matched' = TRUE
          /\ ppc' = NextSend
          /\ ssel' = NextSsel
          /\ UNCHANGED sent
       \/ /\ matched' = TRUE
          /\ ppc' = NextSend
          /\ ssel' = NextSsel
          /\ UNCHANGED <<acts, sent>>
       \/ /\ ppc' = NextSend
          /\ ssel' = NextSsel
          /\ UNCHANGED <<acts, matched, sent>>
    /\ UNCHANGED <<isel, message_input, perr, pbrowser, taskVars, runVars,
                   pureVars>>

\* Lines 215-223, one send selector: the button is found and clicked; or it
\* is found and the click raises; or it is not found or the query raises.
\* The bare except goes to the next selector.
QuerySend ==
    /\ ppc = "send"
    /\ \/ /\ acts' = Append(acts, "send_click")
          /\ matched' = TRUE
          /\ sent' = TRUE
          /\ ppc' = "logged"
          /\ ssel' = 0
       \/ /\ matched' = TRUE
          /\ ppc' = NextSend
          /\ ssel' = NextSsel
          /\ UNCHANGED <<acts, sent>>
       \/ /\ ppc' = NextSend
          /\ ssel' = NextSsel
          /\ UNCHANGED <<acts, matched, sent>>
    /\ UNCHANGED <<isel, message_input, perr, pbrowser, taskVars, runVars,
                   pureVars>>

\* Lines 225-227: `if not sent`, press Enter.
PressEnter ==
    /\ ppc = "enter"
    /\ ~sent
    /\ \/ /\ acts' = Append(acts, "enter")
          /\ ppc' = "logged"
          /\ UNCHANGED perr
       \/ /\ ppc' = "finally_raise"
          /\ perr' = DriverError
          /\ UNCHANGED acts
    /\ UNCHANGED <<isel, message_input, ssel, pbrowser, matched, sent, taskVars,
                   runVars, pureVars>>

\* Lines 229-230: the success log and the last wait.
FinalWait ==
    /\ ppc = "logged"
    /\ \/ /\ ppc' = "finally_return"
          /\ UNCHANGED perr
       \/ /\ ppc' = "finally_raise"
          /\ perr' = DriverError
    /\ UNCHANGED <<isel, message_input, ssel, pbrowser, acts, matched, sent,
                   taskVars, runVars, pureVars>>

\* Lines 235-236: the finally closes the browser; then the call returns, or
\* the handler's `raise` leaves it.
PostClose ==
    /\ ppc \in {"finally_return", "finally_raise"}
    /\ pbrowser' = "closed"
    /\ ppc' = IF ppc = "finally_return" THEN "returned" ELSE "raised"
    /\ UNCHANGED <<isel, message_input, perr, ssel, acts, matched, sent,
                   taskVars, runVars, pureVars>>

PostStep ==
    \/ PostLaunch
    \/ PostNewContext
    \/ PostAddCookies
    \/ PostNewPage
    \/ PostGoto
    \/ PostSettle
    \/ WaitInput
    \/ ClickInput
    \/ FillInput
    \/ QuerySend
    \/ PressEnter
    \/ FinalWait
    \/ PostClose

\* ------------------------------------------------ main and run_analysis

\* CookieMissing with line 22 testing `is None`: an empty cookie passes.
CookieMissingUnsetOnly(c) == c = None

\* Line 22: `not self.substack_cookie`: None and '' are falsy.
CookieMissing(c) == c = None \/ c = <<"">>

\* Lines 19-23 and 311: SubstackBot() raises ValueError out of main, or
\* main goes on to run_analysis.
Construct ==
    /\ mpc = "main"
    /\ mpc' = IF CookieMissing(cookie) THEN "config_error" ELSE "run"
    /\ UNCHANGED <<cookie, message, posted, taskVars, postVars, pureVars>>

\* Lines 283-286: both coroutines are made and gathered.
StartGather ==
    /\ mpc = "run"
    /\ tpc' = [t \in Symbols |-> IF t \in RunSymbols THEN "created" ELSE tpc[t]]
    /\ mpc' = "gather"
    /\ UNCHANGED <<cookie, message, posted, fi, si, ohlc, browser, ret, postVars,
                   pureVars>>

\* Line 288 with its second `not` lost: `not es_data and nq_data`.
BothFailedLostNot(es_data, nq_data) == es_data = None /\ nq_data # None

\* Line 288: `not es_data and not nq_data`.
BothFailed(es_data, nq_data) == es_data = None /\ nq_data = None

\* Join with line 286 waiting for the first call to return rather than for
\* both: the message is made from what has returned so far.
JoinFirstCompleted ==
    /\ mpc = "gather"
    /\ \E t \in RunSymbols : ret[t] \in {"dict", "none"}
    /\ LET es_data == Returned("ES1!")
           nq_data == Returned("NQ1!")
       IN IF BothFailed(es_data, nq_data)
          THEN /\ mpc' = "aborted"
               /\ UNCHANGED <<message, ppc>>
          ELSE /\ message' = <<FormatMarketAnalysis(es_data, nq_data)>>
               /\ ppc' = "start"
               /\ mpc' = "post"
    /\ UNCHANGED <<cookie, posted, taskVars, isel, message_input, perr, ssel,
                   pbrowser, acts, matched, sent, pureVars>>

\* Lines 286-300: both calls returned.  Either the run is given up (line
\* 290), or the message is formatted and handed to post_to_substack_chat.
Join ==
    /\ mpc = "gather"
    /\ \A t \in RunSymbols : ret[t] \in {"dict", "none"}
    /\ LET es_data == Returned("ES1!")
           nq_data == Returned("NQ1!")
       IN IF BothFailed(es_data, nq_data)
          THEN /\ mpc' = "aborted"
               /\ UNCHANGED <<message, ppc>>
          ELSE /\ message' = <<FormatMarketAnalysis(es_data, nq_data)>>
               /\ ppc' = "start"
               /\ mpc' = "post"
    /\ UNCHANGED <<cookie, posted, taskVars, isel, message_input, perr, ssel,
                   pbrowser, acts, matched, sent, pureVars>>

\* Lines 286 and 303-305: gather raises as soon as one call raised; the
\* handler logs and re-raises.
GatherRaised ==
    /\ mpc = "gather"
    /\ \E t \in RunSymbols : ret[t] = "raised"
    /\ mpc' = "raised"
    /\ UNCHANGED <<cookie, message, posted, taskVars, postVars, pureVars>>

\* Lines 300-301: the publisher returned.
PostReturned ==
    /\ mpc = "post"
    /\ ppc = "returned"
    /\ posted' = TRUE
    /\ mpc' = "done"
    /\ UNCHANGED <<cookie, message, taskVars, postVars, pureVars>>

\* PostRaised with the handler of lines 303-305 logging without the `raise`
\* of line 305: run_analysis returns normally after a failed publish.
PostRaisedSwallowed ==
    /\ mpc = "post"
    /\ ppc = "raised"
    /\ mpc' = "done"
    /\ UNCHANGED <<cookie, message, posted, taskVars, postVars, pureVars>>

\* Lines 300 and 303-305: the publisher raised; logged and re-raised.
PostRaised ==
    /\ mpc = "post"
    /\ ppc = "raised"
    /\ mpc' = "raised"
    /\ UNCHANGED <<cookie, message, posted, taskVars, postVars, pureVars>>

\* The positions of extract_ohlc_data inside its try (lines 33-152).
InTry == {"opened", "loaded", "probe", "alt", "estimate", "finally_dict",
          "finally_none"}

\* Line 315: when run_analysis raised, asyncio.run cancels the call still
\* running: the cancellation passes `except Exception`, and the finally
\* closes the browser if the call is inside its try.
CancelTask(t) ==
    /\ mpc = "raised"
    /\ tpc[t] \notin {"idle", "done"}
    /\ browser' = [browser EXCEPT ![t] = IF tpc[t] \in InTry THEN "closed" ELSE @]
    /\ tpc' = [tpc EXCEPT ![t] = "done"]
    /\ ret' = [ret EXCEPT ![t] = "cancelled"]
    /\ UNCHANGED <<fi, si, ohlc, runVars, postVars, pureVars>>

Init ==
    /\ cookie \in {None, <<"">>, <<"sid">>}
    /\ mpc = "main"
    /\ message = None
    /\ posted = FALSE
    /\ IdleTasks
    /\ IdlePost
    /\ IdlePure

Next ==
    \/ Construct
    \/ StartGather
    \/ \E t \in RunSymbols : ExtractStep(t, RunTexts, MaxRunElems, {})
    \/ Join
    \/ GatherRaised
    \/ PostStep
    \/ PostReturned
    \/ PostRaised
    \/ \E t \in RunSymbols : CancelTask(t)

Spec == Init /\ [][Next]_vars

\* --------------------------------- the numeric-extraction step taken alone

\* Characters of the generated texts.
Alphabet == {"4", "0", ",", ".", "U"}

\* Every text over Alphabet up to MaxLen characters, and the page texts.
ParseTexts == UNION {[1..k -> Alphabet] : k \in 0..MaxLen} \cup ExtractTexts

InitParse ==
    /\ cookie = <<"sid">>
    /\ mpc = "direct"
    /\ message = None
    /\ posted = FALSE
    /\ IdleTasks
    /\ IdlePost
    /\ ptext \in ParseTexts
    /\ pres = NotCalled
    /\ fin = <<None, None>>
    /\ fout = NotCalled

\* Lines 88-92 on ptext.
ParseCall ==
    /\ ~pres.done
    /\ pres' = Gave(ParseNumber(ptext))
    /\ UNCHANGED <<ptext, fin, fout, taskVars, postVars, runVars>>

NextParse == ParseCall

SpecParse == InitParse /\ [][NextParse]_vars

\* --------------------------------- format_market_analysis taken alone

\* A price, as a count of 1/Scale: 4521.25.
SamplePrice == 4521 * Scale + Scale \div 4

\* The fields of the snapshots handed to the formatter.
FormatValues == {None, Some(0), Some(SamplePrice)}

\* None, or a snapshot with any of its four fields present.
FormatInputs(symbol) ==
    {None} \cup
    {<<[symbol |-> symbol, open |-> o, high |-> h, low |-> l, close |-> c,
        timestamp |-> "now"]>> :
        o \in FormatValues, h \in FormatValues, l \in FormatValues,
        c \in FormatValues}

InitFormat ==
    /\ cookie = <<"sid">>
    /\ mpc = "direct"
    /\ message = None
    /\ posted = FALSE
    /\ IdleTasks
    /\ IdlePost
    /\ ptext = <<>>
    /\ pres = NotCalled
    /\ fin \in FormatInputs("ES1!") \X FormatInputs("NQ1!")
    /\ fout = NotCalled

\* Lines 238-273 on fin.
FormatCall ==
    /\ ~fout.done
    /\ fout' = Gave(FormatMarketAnalysis(fin[1], fin[2]))
    /\ UNCHANGED <<ptext, pres, fin, taskVars, postVars, runVars>>

NextFormat == FormatCall

SpecFormat == InitFormat /\ [][NextFormat]_vars

\* ------------------------------------------------------------- claims

\* The run is past the gather of line 286 and did not raise out of it.
Joined == mpc \in {"aborted", "post", "done"} \/ (mpc = "raised" /\ ppc # "idle")

\* C1: in a run where both extract_ohlc_data calls returned None,
\* post_to_substack_chat is never started (no message is formatted, nothing
\* is done on the chat page, nothing is logged as posted) and run_analysis
\* does not raise: it is still gathering or has returned at line 290.
C1_BothNoneNeverPublishes ==
    (\A t \in RunSymbols : ret[t] = "none")
        => /\ ppc = "idle"
           /\ message = None
           /\ acts = <<>>
           /\ ~posted
           /\ mpc \in {"gather", "aborted"}

\* Both calls returned None and run_analysis returned at line 290.
C1_Witness == mpc = "aborted" /\ \A t \in RunSymbols : ret[t] = "none"

\* The message holds the block of the instrument with this title: its
\* header line followed by its Current/Last line.
HasInstrumentBlock(msg, title) ==
    \E i \in 1..(Len(msg) - 1) :
        msg[i] = TextLine(title) /\ msg[i + 1].text = "Current/Last"

TitleOf(t) == IF t = "ES1!" THEN ES_TITLE ELSE NQ_TITLE

\* C2: once the gather is over with exactly one of the two calls having
\* returned None, post_to_substack_chat was invoked and the message handed to
\* it holds the block of the instrument whose call returned a snapshot,
\* whatever that snapshot is.
C2_OneNonePublishesOtherBlock ==
    \A t \in RunSymbols : \A u \in RunSymbols :
        (Joined /\ ret[t] = "dict" /\ ret[u] = "none")
            => /\ ppc # "idle"
               /\ message # None
               /\ HasInstrumentBlock(message[1], TitleOf(t))

\* No field of the dict holds a value.
NothingExtracted(d) ==
    d.open = None /\ d.high = None /\ d.low = None /\ d.close = None

\* C3: a call of extract_ohlc_data that ended with no field extracted at all
\* (no primary selector and no fallback stored a value) returned None.
C3_NothingExtractedReturnsNone ==
    \A t \in Symbols :
        (tpc[t] = "done" /\ ret[t] \in {"dict", "none"} /\ NothingExtracted(ohlc[t]))
            => ret[t] = "none"

\* C4: no call of extract_ohlc_data lets an exception out (a failure at any
\* step makes it return None), so a run raises only out of the publisher.
C4_ExtractionNeverRaises ==
    /\ \A t \in RunSymbols : ret[t] # "raised"
    /\ mpc = "raised" => ppc = "raised"

\* C5: when extract_ohlc_data or post_to_substack_chat has returned or
\* raised, the browser it launched is not open any more: browser.close() ran.
C5_BrowserClosedOnExit ==
    /\ \A t \in RunSymbols : tpc[t] = "done" => browser[t] # "open"
    /\ ppc \in {"returned", "raised"} => pbrowser # "open"

\* The longest prefix of the text made of digits, ',' and '.'.
RECURSIVE NumericPrefixEnd(_, _)
NumericPrefixEnd(text, i) ==
    IF i <= Len(text) /\ (IsDigit(text[i]) \/ text[i] \in {",", "."})
    THEN NumericPrefixEnd(text, i + 1) ELSE i - 1

LeadingRun(text) == SubSeq(text, 1, NumericPrefixEnd(text, 1))

\* The run is a number written with thousands separators and a decimal
\* point: groups of three digits after a first group of one to three, a
\* point, and at least one decimal.
IsGroupedDecimal(run) ==
    \E d \in 1..Len(run) :
        /\ run[d] = "."
        /\ d >= 6
        /\ d < Len(run)
        /\ \A i \in (d + 1)..Len(run) : IsDigit(run[i])
        /\ \A i \in 1..(d - 1) :
              IF (d - 1 - i) % 4 = 3 THEN run[i] = "," ELSE IsDigit(run[i])

\* C6: for a text that begins with a numeric run written with thousands
\* separators and a decimal point, the numeric-extraction step gives the
\* value of the whole run (separators removed), whatever follows the run;
\* "4,521.25 USD" gives 4521.25.
C6_FullValueOfLeadingRun ==
    (pres.done /\ IsGroupedDecimal(LeadingRun(ptext)))
        => pres.value = FloatOf(RemoveCommas(LeadingRun(ptext)))

\* The range the claim names: 15 for ES1!, 75 for NQ1!, else 1% of close.
C7_Range(symbol, c) ==
    IF symbol = "ES1!" THEN 15 * Scale
    ELSE IF symbol = "NQ1!" THEN 75 * Scale
    ELSE c \div 100

\* A field after the estimation step: what it held if it held a value (0
\* included), else the estimate.
C7_Kept(before, estimate) == IF before # None THEN before ELSE Some(estimate)

\* C7: the estimation step, taken with close present, leaves each of high,
\* low and open as scraped when it was present (a scraped 0 included) and
\* else sets it to close + 0.6R, close - 0.6R and close + 0.2R; close, symbol
\* and timestamp stay as they were.
C7_EstimateKeepsScraped ==
    [][\A t \in Symbols :
          (tpc[t] = "estimate" /\ tpc'[t] = "finally_dict" /\ ohlc[t].close # None)
              => LET d == ohlc[t]
                     c == d.close[1]
                     r == C7_Range(d.symbol, c)
                 IN ohlc'[t] =
                        [d EXCEPT !.high = C7_Kept(d.high, c + (6 * r) \div 10),
                                  !.low  = C7_Kept(d.low,  c - (6 * r) \div 10),
                                  !.open = C7_Kept(d.open, c + (2 * r) \div 10)]]_vars

NonNegative(x) == x = None \/ x[1] >= 0

\* C8: every snapshot extract_ohlc_data returns has each present field of
\* open, high, low and close at least 0 (no page text is negative).
C8_ReturnedFieldsNonNegative ==
    \A t \in Symbols :
        ret[t] = "dict"
            => /\ NonNegative(ohlc[t].open)
               /\ NonNegative(ohlc[t].high)
               /\ NonNegative(ohlc[t].low)
               /\ NonNegative(ohlc[t].close)

\* A line for a field that is present (0 included), none for an absent one.
C9_Line(s, v) == IF v # None THEN <<PriceLine(s, v)>> ELSE <<>>

\* The block the claim describes for one input.
C9_Block(title, data) ==
    IF data = None \/ data[1].close = None THEN <<>>
    ELSE <<TextLine(title), PriceLine("Current/Last", data[1].close)>>
         \o C9_Line("Resistance", data[1].high)
         \o C9_Line("Support", data[1].low)
         \o C9_Line("Open", data[1].open)
         \o <<TextLine("")>>

\* C9: between its header and its trailing lines the message holds, for ES
\* then NQ, a block exactly when the input is not None and its close is
\* present, and in a block the lines Current/Last, Resistance, Support, Open
\* in that order, each of the last three exactly when its field is present
\* (a present 0 counts as present).
C9_BlocksFollowPresence ==
    fout.done
        => fout.value = HeaderLines \o C9_Block(ES_TITLE, fin[1])
                        \o C9_Block(NQ_TITLE, fin[2]) \o TrailerLines

\* The positions of post_to_substack_chat past its input loop on the way to
\* a normal return.
PastInput == {"click", "fill", "send", "enter", "logged", "finally_return",
              "returned"}

\* C10: while post_to_substack_chat holds no input element it has clicked,
\* filled, clicked a send button and pressed Enter not once, and it is not on
\* the way to a normal return; and when no input selector gave an element it
\* is raising "Could not find chat input field" to its caller.
C10_NoInputRaisesNothingSubmitted ==
    /\ message_input = None => (acts = <<>> /\ ppc \notin PastInput)
    /\ perr = NoInputError
           => (message_input = None /\ ppc \in {"finally_raise", "raised"})

\* Every input selector timed out and the call raised, its browser closed.
C10_Witness ==
    /\ ppc = "raised"
    /\ perr = NoInputError
    /\ acts = <<>>
    /\ pbrowser = "closed"

\* The number of entries of the action log equal to a.
Count(a) == Cardinality({i \in 1..Len(acts) : acts[i] = a})

\* The positions of post_to_substack_chat past its send step on the way to a
\* normal return.
PastSend == {"logged", "finally_return", "returned"}

\* C11 as stated: once the send step is over, Enter was pressed exactly when
\* no send selector matched an element, and the call made exactly one send
\* action (one button click or one Enter).
C11_EnterIffNoSelectorMatched ==
    ppc \in PastSend
        => /\ (Count("enter") = 1) <=> ~matched
           /\ Count("send_click") + Count("enter") = 1

\* C11 amended: once the send step is over, Enter was pressed exactly when no
\* send button click completed (no selector matched, or the click of every
\* matched button raised); a completed click came from a matched selector;
\* and the call made exactly one completed send action.  At no point has the
\* call made more than one.
C11_EnterIffNoClickCompleted ==
    /\ Count("send_click") + Count("enter") <= 1
    /\ sent <=> Count("send_click") = 1
    /\ sent => matched
    /\ ppc \in PastSend
           => /\ (Count("enter") = 1) <=> ~sent
              /\ Count("send_click") + Count("enter") = 1

\* A send selector matched, its click raised, no click completed, and the
\* message went out by Enter; the call returned.
C11_Witness ==
    /\ ppc = "returned"
    /\ matched
    /\ ~sent
    /\ acts = <<"click", "fill", "enter">>

\* Everything one extract_ohlc_data call holds: its position, loop indexes,
\* snapshot, browser and result.
TaskState(t) == <<tpc[t], fi[t], si[t], ohlc[t], browser[t], ret[t]>>

\* C12: whenever post_to_substack_chat has started, both extract_ohlc_data
\* calls are over, each with a returned result (a snapshot or None) and its
\* browser closed; no step of the publisher happens together with a step of
\* an extraction; and a step that changes the browser or snapshot of one
\* running call leaves the whole state of the other call as it was.
C12_PublishAfterBothExtractions ==
    /\ [](ppc # "idle"
            => \A t \in RunSymbols : /\ tpc[t] = "done"
                                     /\ ret[t] \in {"dict", "none"}
                                     /\ browser[t] = "closed")
    /\ [][/\ postVars' # postVars
             => \A t \in RunSymbols : TaskState(t)' = TaskState(t)
          /\ \A t, u \in RunSymbols :
                (/\ t # u
                 /\ tpc[t] \notin {"idle", "done"}
                 /\ TaskState(t)' # TaskState(t))
                    => TaskState(u)' = TaskState(u)]_vars

\* The publisher is at its first step, both calls over and both browsers
\* closed, one call having returned None.
C12_Witness ==
    /\ ppc = "start"
    /\ mpc = "post"
    /\ ret["ES1!"] = "none"
    /\ ret["NQ1!"] = "dict"
    /\ \A t \in RunSymbols : browser[t] = "closed"

\* C13: once post_to_substack_chat has failed (an error reached its handler
\* at line 232, or was raised by the browser set-up before the try), the call
\* is raising or has raised to run_analysis and never returns; run_analysis
\* is still awaiting it or has itself raised, it has not completed normally,
\* and the run is not logged as posted.  A run logged as posted had a
\* publisher that returned without any error.
C13_PublishFailurePropagates ==
    /\ perr # None
           => /\ ppc \in {"finally_raise", "raised"}
              /\ mpc \in {"post", "raised"}
              /\ ~posted
    /\ ppc \in {"finally_raise", "raised"} => perr # None
    /\ posted => (perr = None /\ ppc = "returned" /\ mpc = "done")
    /\ mpc = "done" => posted

\* The publisher failed after it had clicked and filled the input (the send
\* step or the final wait raised), closed its browser and raised, and
\* run_analysis has raised in turn.
C13_Witness ==
    /\ mpc = "raised"
    /\ ppc = "raised"
    /\ perr = DriverError
    /\ acts = <<"click", "fill">>
    /\ pbrowser = "closed"
    /\ ~posted

\* C14: in a run of main whose SUBSTACK_COOKIE is unset or empty, main is at
\* its start or has ended with the configuration error of line 23; no
\* extract_ohlc_data call has been created, no browser has been launched,
\* no message has been formatted, and post_to_substack_chat has not started.
C14_NoCookieNothingRuns ==
    (cookie = None \/ cookie = <<"">>)
        => /\ mpc \in {"main", "config_error"}
           /\ \A t \in Symbols : /\ tpc[t] = "idle"
                                 /\ browser[t] = "none"
                                 /\ ret[t] = "pending"
           /\ message = None
           /\ ppc = "idle"
           /\ pbrowser = "none"
           /\ acts = <<>>
           /\ ~posted

\* The cookie is the empty string and the constructor has raised.
C14_Witness ==
    /\ cookie = <<"">>
    /\ mpc = "config_error"

\* C15: for None or a snapshot with any of its four fields present, absent
\* or 0, on either side, the call raises at no line (no None is formatted
\* with :.2f) and the last three lines of its result are the two annotation
\* lines and the hashtag line.
C15_NeverRaisesFixedTrailer ==
    fout.done
        => LET msg == fout.value
               n   == Len(msg)
           IN /\ \A i \in 1..n : msg[i].price # TypeError
              /\ n >= 3
              /\ msg[n - 2].text
                     = "Key levels extracted from TradingView OHLC data"
              /\ msg[n - 1].text
                     = "Support = Low | Resistance = High | Current = Close"
              /\ msg[n].text = "#Trading #Futures #ES #NQ #TradingView"
              /\ \A i \in (n - 2)..n : msg[i].price = None

\* The call returned for ES None and an NQ snapshot with its close present,
\* its low 0 and its high and open absent: the header, an NQ block of three
\* lines, and the three trailing lines.
C15_Witness ==
    /\ fout.done
    /\ fin[1] = None
    /\ fin[2] # None
    /\ fin[2][1].close = Some(SamplePrice)
    /\ fin[2][1].high = None
    /\ fin[2][1].low = Some(0)
    /\ fin[2][1].open = None
    /\ Len(fout.value) = 8

\* The call for t takes a step.
TaskStep(t) == <<tpc[t], fi[t], si[t], ohlc[t]>>' # <<tpc[t], fi[t], si[t], ohlc[t]>>

\* C16: every selector query of the primary loop is made for a field that
\* holds no value yet (once a value is stored, 0 included, no later strategy
\* of that field is queried), and the query leaves every field that holds a
\* value as it is.
C16_FirstValueKept ==
    [][\A t \in Symbols :
          (tpc[t] = "probe" /\ TaskStep(t))
              => /\ ohlc[t][Fields[fi[t]]] = None
                 /\ \A g \in {"open", "high", "low", "close"} :
                       ohlc[t][g] # None => ohlc'[t][g] = ohlc[t][g]]_vars

\* C17: on a driver that raises on the :contains() selectors, and may raise
\* on any other, every probe of the primary loop leaves the call inside its
\* try on the way to returning the dict; it leaves every field but the one
\* probed as it was; a probe of a rejected selector, which raised, stores
\* nothing; and a probe that stored nothing is followed by the next strategy
\* of the field, or after the field's last strategy by the first strategy of
\* the next field, or after the last field by the steps that follow the
\* loop.  The call gives None only from a failed goto or wait, never from
\* the loop.
C17_ProbeErrorDoesNotAbort ==
    [][\A t \in Symbols :
          /\ (tpc[t] = "probe" /\ TaskStep(t))
                => LET f    == fi[t]
                       s    == si[t]
                       last == s = Len(Selectors[Fields[f]])
                   IN /\ tpc'[t] \in {"probe", "alt", "estimate"}
                      /\ \A g \in {"open", "high", "low", "close"} \ {Fields[f]} :
                            ohlc'[t][g] = ohlc[t][g]
                      /\ Selectors[Fields[f]][s] \in JQuerySelectors
                            => ohlc'[t] = ohlc[t]
                      /\ ohlc'[t] = ohlc[t]
                            => IF ~last
                               THEN /\ tpc'[t] = "probe"
                                    /\ fi'[t] = f
                                    /\ si'[t] = s + 1
                               ELSE IF f < Len(Fields)
                               THEN /\ tpc'[t] = "probe"
                                    /\ fi'[t] = f + 1
                                    /\ si'[t] = 1
                               ELSE tpc'[t] \in {"alt", "estimate"}
          /\ (tpc'[t] = "finally_none" /\ tpc[t] # "finally_none")
                => tpc[t] \in {"opened", "loaded"}]_vars

\* A call on that driver returned its dict with open absent, so that all
\* four strategies of open were probed and the second one raised, and with
\* high stored by a probe that came after it.
C17_Witness ==
    \E t \in Symbols :
        /\ ret[t] = "dict"
        /\ ohlc[t].open = None
        /\ ohlc[t].high = Some(4521 * Scale)
        /\ ohlc[t].close = None

\* C18: every message handed to post_to_substack_chat holds the block of ES
\* or the block of NQ, a title line followed by its Current/Last line; it is
\* never the header followed directly by the three trailing lines.
C18_PublishedMessageHasBlock ==
    message # None
        => /\ \/ HasInstrumentBlock(message[1], ES_TITLE)
              \/ HasInstrumentBlock(message[1], NQ_TITLE)
           /\ message[1] # HeaderLines \o TrailerLines

\* C19: a dict that extract_ohlc_data returns (or is about to return, its
\* browser still to be closed) with a close that is present and not 0 has
\* its open, high and low present too, for every symbol.
C19_CloseImpliesAllFields ==
    \A t \in Symbols :
        (/\ tpc[t] \in {"finally_dict", "done"}
         /\ ret[t] \in {"pending", "dict"}
         /\ ohlc[t].close # None
         /\ ohlc[t].close # Some(0))
            => /\ ohlc[t].open # None
               /\ ohlc[t].high # None
               /\ ohlc[t].low # None

\* The ES1! call returned with close 9 scraped and the rest synthesized from
\* the range of 15: high 18, open 12, and a low of 0, present though falsy.
C19_Witness ==
    /\ ret["ES1!"] = "dict"
    /\ ohlc["ES1!"].close = Some(9 * Scale)
    /\ ohlc["ES1!"].high = Some(18 * Scale)
    /\ ohlc["ES1!"].low = Some(0)
    /\ ohlc["ES1!"].open = Some(12 * Scale)

====
